---- MODULE Spec2Model ----
(***************************************************************************)
(* Model of carbonarb.py: the carbon-arbitrage pipeline                    *)
(*   calculate_rho -> calculate_emissions_and_production (twice)           *)
(*   -> calculate_cost_and_benefit, driven by main() (one evaluation at    *)
(*   the slider values, then a 20-point sweep of one parameter).           *)
(*                                                                         *)
(* Numbers.  Python/NumPy doubles are modelled by exact values:            *)
(*   - a finite scalar is a decimal rational n/d * 10^e in canonical form  *)
(*     (Q below);                                                          *)
(*   - the two quantities the code never reduces to a short decimal are    *)
(*     kept as named atoms of a formal sum (a Value): the literal          *)
(*     _lambda = 0.5175273490449868 and the powers (1 + rho) ** (-deltat); *)
(*   - the IEEE specials a NumPy division by zero produces (inf, -inf,     *)
(*     nan) are Values of their own kind.                                  *)
(* Rounding error is not modelled: equal Values are equal doubles, because *)
(* the code applies the same operations in the same order.                 *)
(***************************************************************************)
EXTENDS Integers, Sequences, FiniteSets, TLC

(***************************************************************************)
(* Decimal rationals: [n, d, e] stands for n/d * 10^e.  Canonical form:    *)
(* d > 0, gcd(n, d) = 1, d coprime to 10, n not a multiple of 10, and      *)
(* zero is [0, 1, 0].                                                      *)
(***************************************************************************)
Abs(x) == IF x < 0 THEN -x ELSE x

Sgn(x) == IF x < 0 THEN -1 ELSE IF x = 0 THEN 0 ELSE 1

Min(a, b) == IF a <= b THEN a ELSE b

RECURSIVE Gcd(_, _)
Gcd(a, b) == IF b = 0 THEN Abs(a) ELSE Gcd(b, Abs(a) % Abs(b))

RECURSIVE Pow10(_)
Pow10(k) == IF k <= 0 THEN 1 ELSE 10 * Pow10(k - 1)

RECURSIVE Canon(_, _, _)
Canon(n, d, e) ==
    IF n = 0 THEN [n |-> 0, d |-> 1, e |-> 0]
    ELSE IF d % 2 = 0 THEN Canon(n * 5, d \div 2, e - 1)
    ELSE IF d % 5 = 0 THEN Canon(n * 2, d \div 5, e - 1)
    ELSE IF n % 10 = 0 THEN Canon(n \div 10, d, e + 1)
    ELSE [n |-> n, d |-> d, e |-> e]

\* n/d * 10^e for any integers n, d /= 0, e.
Q(n, d, e) ==
    LET g == Gcd(n, d)
        s == Sgn(d)
    IN  IF n = 0 THEN [n |-> 0, d |-> 1, e |-> 0]
        ELSE Canon(s * (n \div g), Abs(d) \div g, e)

QInt(k) == Q(k, 1, 0)

QNeg(a) == [n |-> -a.n, d |-> a.d, e |-> a.e]

QAdd(a, b) ==
    IF a.n = 0 THEN b
    ELSE IF b.n = 0 THEN a
    ELSE LET e  == Min(a.e, b.e)
             na == a.n * Pow10(a.e - e)
             nb == b.n * Pow10(b.e - e)
             g  == Gcd(a.d, b.d)
         IN  Q(na * (b.d \div g) + nb * (a.d \div g), (a.d \div g) * b.d, e)

QSub(a, b) == QAdd(a, QNeg(b))

QMul(a, b) ==
    LET g1 == Gcd(a.n, b.d)
        g2 == Gcd(b.n, a.d)
    IN  IF a.n = 0 \/ b.n = 0 THEN [n |-> 0, d |-> 1, e |-> 0]
        ELSE Q((a.n \div g1) * (b.n \div g2), (a.d \div g2) * (b.d \div g1), a.e + b.e)

\* 1/a for a /= 0.
QInv(a) == Q(a.d, a.n, -a.e)

QDiv(a, b) == QMul(a, QInv(b))

QSign(a) == Sgn(a.n)

QZero == [n |-> 0, d |-> 1, e |-> 0]

(***************************************************************************)
(* Values: what a Python expression of the program evaluates to.           *)
(*   kind "fin":  the formal sum of terms[m] * m over the monomials m in   *)
(*                DOMAIN terms (no zero coefficient is stored);            *)
(*   kind "inf", "-inf", "nan": the IEEE specials.                         *)
(* Monomials: the constant 1 (atom "one"), the literal _lambda (atom       *)
(* "lambda") and base ** exp for a non-scalar base (atom "pow").           *)
(***************************************************************************)
NoTerms == <<>>

VZero == [kind |-> "fin", terms |-> NoTerms]

VInf == [kind |-> "inf", terms |-> NoTerms]

VNegInf == [kind |-> "-inf", terms |-> NoTerms]

VNaN == [kind |-> "nan", terms |-> NoTerms]

ConstMono == [atom |-> "one", base |-> VZero, exp |-> 0]

LambdaMono == [atom |-> "lambda", base |-> VZero, exp |-> 1]

PowMono(b, k) == [atom |-> "pow", base |-> b, exp |-> k]

\* f without its zero coefficients (@@ makes TLC tabulate the function).
Prune(f) == [m \in {x \in DOMAIN f : f[x].n # 0} |-> f[m]] @@ <<>>

VFin(f) == [kind |-> "fin", terms |-> Prune(f)]

Scalar(q) == VFin([m \in {ConstMono} |-> q])

Num(k) == Scalar(QInt(k))

\* The decimal literal n * 10^e, e.g. 0.0208 = Dec(208, -4), 1e18 = Dec(1, 18).
Dec(n, e) == Scalar(Q(n, 1, e))

Coef(v, m) == IF m \in DOMAIN v.terms THEN v.terms[m] ELSE QZero

IsFinite(v) == v.kind = "fin"

IsScalar(v) == v.kind = "fin" /\ DOMAIN v.terms \subseteq {ConstMono}

ScalarOf(v) == Coef(v, ConstMono)

IsZero(v) == v = VZero

\* Sign of a scalar or of an infinity.
VSign(v) ==
    CASE v.kind = "inf" -> 1
      [] v.kind = "-inf" -> -1
      [] IsScalar(v) -> QSign(ScalarOf(v))

Signed(s) == IF s > 0 THEN VInf ELSE IF s < 0 THEN VNegInf ELSE VNaN

VNeg(a) ==
    CASE a.kind = "fin" -> [kind |-> "fin", terms |-> [m \in DOMAIN a.terms |-> QNeg(a.terms[m])]]
      [] a.kind = "inf" -> VNegInf
      [] a.kind = "-inf" -> VInf
      [] a.kind = "nan" -> VNaN

\* a + b in IEEE arithmetic: nan is absorbing, inf + -inf = nan.
VAdd(a, b) ==
    CASE a.kind = "nan" \/ b.kind = "nan" -> VNaN
      [] a.kind = "fin" /\ b.kind = "fin" ->
            VFin([m \in DOMAIN a.terms \cup DOMAIN b.terms |-> QAdd(Coef(a, m), Coef(b, m))])
      [] a.kind = "fin" /\ b.kind # "fin" -> b
      [] a.kind # "fin" /\ b.kind = "fin" -> a
      [] OTHER -> IF a.kind = b.kind THEN a ELSE VNaN

VSub(a, b) == VAdd(a, VNeg(b))

Scale(q, v) == VFin([m \in DOMAIN v.terms |-> QMul(q, v.terms[m])])

\* a * b; one factor is a scalar or a special (the program never multiplies
\* two non-scalar sums).  inf * 0 = nan.
VMul(a, b) ==
    CASE a.kind = "nan" \/ b.kind = "nan" -> VNaN
      [] IsScalar(a) /\ b.kind = "fin" -> Scale(ScalarOf(a), b)
      [] a.kind = "fin" /\ ~IsScalar(a) /\ IsScalar(b) -> Scale(ScalarOf(b), a)
      [] (a.kind \in {"inf", "-inf"} /\ (IsScalar(b) \/ b.kind \in {"inf", "-inf"}))
           \/ (b.kind \in {"inf", "-inf"} /\ IsScalar(a)) -> Signed(VSign(a) * VSign(b))

\* a / b for a scalar or special divisor b, as NumPy divides: x / 0 is inf,
\* -inf or nan (a RuntimeWarning, no exception), x / inf = 0, inf / inf = nan.
VDiv(a, b) ==
    CASE a.kind = "nan" \/ b.kind = "nan" -> VNaN
      [] IsScalar(b) /\ ~IsZero(b) /\ a.kind = "fin" -> Scale(QInv(ScalarOf(b)), a)
      [] IsScalar(b) /\ ~IsZero(b) /\ a.kind # "fin" -> Signed(VSign(a) * VSign(b))
      [] IsZero(b) /\ a.kind = "fin" /\ IsScalar(a) -> Signed(VSign(a))
      [] IsZero(b) /\ a.kind # "fin" -> a
      [] b.kind \in {"inf", "-inf"} /\ a.kind = "fin" -> VZero
      [] b.kind \in {"inf", "-inf"} /\ a.kind # "fin" -> VNaN

\* base ** exp for a non-scalar base and an integer exponent /= 0.
VPow(base, exp) == VFin([m \in {PowMono(base, exp)} |-> QInt(1)])

(***************************************************************************)
(* Helper functions of carbonarb.py.                                       *)
(***************************************************************************)
rho_f == Dec(208, -4)

\* A variant with the subtraction the other way round.
carp_reversed == VSub(Dec(1, -2), Dec(299, -4))

\* carp = 0.0299 - 0.01
carp == VSub(Dec(299, -4), Dec(1, -2))

\* _lambda = 0.5175273490449868, kept as the atom "lambda"; its decimal
\* digits after the point are LambdaDigits.
_lambda == VFin([m \in {LambdaMono} |-> QInt(1)])

LambdaDigits == <<5, 1, 7, 5, 2, 7, 3, 4, 9, 0, 4, 4, 9, 8, 6, 8>>

tax_rate == Dec(15, -2)

calculate_rho(beta) ==
    VAdd(VMul(VMul(_lambda, rho_f), VSub(Num(1), tax_rate)),
         VMul(VSub(Num(1), _lambda), VAdd(rho_f, VMul(beta, carp))))

calculate_discount(rho, deltat) == VPow(VAdd(Num(1), rho), -deltat)

EJ2MWh(x) == VDiv(VDiv(VMul(x, Dec(1, 18)), Num(3600)), Dec(1, 6))

EJ2Mcoal(x) == VDiv(VDiv(VMul(x, Dec(1, 9)), Dec(293076, -4)), Dec(1, 6))

(***************************************************************************)
(* scipy's interp1d(x, y) (kind "linear") called at x_new, for x_new       *)
(* within [x[1], x[Len(x)]]: searchsorted finds the first sample >= x_new, *)
(* the index is clipped to 2..Len(x), and the value is                     *)
(* slope * (x_new - x_lo) + y_lo.  y holds decimal rationals.              *)
(***************************************************************************)
searchsorted(x, x_new) ==
    IF \E i \in 1..Len(x) : x[i] >= x_new
    THEN CHOOSE i \in 1..Len(x) : x[i] >= x_new /\ \A j \in 1..(i - 1) : x[j] < x_new
    ELSE Len(x) + 1

interp1d(x, y, x_new) ==
    LET found == searchsorted(x, x_new)
        hi    == IF found < 2 THEN 2 ELSE IF found > Len(x) THEN Len(x) ELSE found
        lo    == hi - 1
        slope == QDiv(QSub(y[hi], y[lo]), QInt(x[hi] - x[lo]))
    IN  Scalar(QAdd(QMul(slope, QInt(x_new - x[lo])), y[lo]))

\* sum(terms[lo..hi]): Python's sum starts from the int 0 and adds the terms
\* from left to right.  Addition of Values is associative, so the range is
\* summed by halves, which keeps the evaluation shallow.
RECURSIVE SumRange(_, _, _)
SumRange(terms, lo, hi) ==
    IF lo > hi THEN Num(0)
    ELSE IF lo = hi THEN VAdd(Num(0), terms[lo])
    ELSE LET mid == (lo + hi) \div 2
         IN  VAdd(SumRange(terms, lo, mid), SumRange(terms, mid + 1, hi))

SumOver(terms) == SumRange(terms, 1, Len(terms))

(***************************************************************************)
(* The dataset df_ngfs: a sequence of rows, each with its Scenario, its    *)
(* Variable and one value per 5-year column ("2010" ... "2100").           *)
(***************************************************************************)
VarEmissions == "Emissions|CO2"

\* A variant that reads the production from the emissions row.
VarProduction_copied == "Emissions|CO2"

VarProduction == "Primary Energy|Coal"

ScenarioCPS == "NGFS2_Current Policies"

ScenarioNZ == "NGFS2_Net-Zero 2050"

\* list(range(2010, 2101, 5))
years_5_step == [i \in 1..19 |-> 2010 + 5 * (i - 1)]

\* A variant that stops one year early: range(2023, 2100).
full_years_short == [i \in 1..77 |-> 2022 + i]

\* range(2023, 2101)
full_years == [i \in 1..78 |-> 2022 + i]

\* row[str(y)]
Column(row, y) == row.vals[y]

\* df[df.Scenario == scenario], sub[sub.Variable == variable]
FilterScenario(df, scenario) == SelectSeq(df, LAMBDA r : r.Scenario = scenario)

FilterVariable(sub, variable) == SelectSeq(sub, LAMBDA r : r.Variable = variable)

CallRecord(fn, scenario, beta) == [fn |-> fn, scenario |-> scenario, beta |-> beta]

\* An exception leaving a function: no return value.
Raise(exc, calls, df) == [outcome |-> exc, ret |-> <<>>, calls |-> calls, df |-> df]

Return(value, calls, df) == [outcome |-> "ok", ret |-> <<value>>, calls |-> calls, df |-> df]

\* The exceptions that are a LookupError in Python.
IsLookupError(exc) == exc \in {"IndexError", "KeyError"}

\* [emissions_row[str(y)] / 1e3 for y in years_5_step]
emissions_values(emissions_row) ==
    [i \in 1..Len(years_5_step) |-> QDiv(QInt(Column(emissions_row, years_5_step[i])), Q(1, 1, 3))]

\* [production_row[str(y)] for y in years_5_step]
production_values(production_row) ==
    [i \in 1..Len(years_5_step) |-> QInt(Column(production_row, years_5_step[i]))]

\* sum(f_e(y) for y in full_years), then *= coal_emissions_2022_iea / f_e(2022)
coal_emissions_2022_iea == Dec(155, -1)

total_emissions(ev) ==
    LET f_e(y) == interp1d(years_5_step, ev, y)
        terms  == [i \in 1..Len(full_years) |-> f_e(full_years[i])]
        raw    == SumOver(terms)
    IN  VMul(raw, VDiv(coal_emissions_2022_iea, f_e(2022)))

\* sum(f_p(y) * calculate_discount(rho, y - 2022) for y in full_years)
production_discounted(pv, rho) ==
    LET f_p(y)  == interp1d(years_5_step, pv, y)
        terms   == [i \in 1..Len(full_years) |->
                       VMul(f_p(full_years[i]), calculate_discount(rho, full_years[i] - 2022))]
    IN  SumOver(terms)

\* Lines 41-58 for the two rows found: the returned dict.
emissions_and_production(emissions_row, production_row, beta) ==
    LET ev  == emissions_values(emissions_row)
        pv  == production_values(production_row)
        rho == calculate_rho(beta)
    IN  [emissions |-> total_emissions(ev),
         production_2022 |-> EJ2Mcoal(interp1d(years_5_step, pv, 2022)),
         production_discounted |-> production_discounted(pv, rho)]

\* A variant that fills in zeros for a scenario whose rows are missing.
calculate_emissions_and_production_defaulting(scenario, df, beta) ==
    LET sub  == FilterScenario(df, scenario)
        em   == FilterVariable(sub, VarEmissions)
        pr   == FilterVariable(sub, VarProduction)
    IN  IF em = <<>> \/ pr = <<>>
        THEN Return([emissions |-> Num(0), production_2022 |-> Num(0),
                     production_discounted |-> Num(0)], <<>>, df)
        ELSE Return(emissions_and_production(em[1], pr[1], beta),
                    <<CallRecord("calculate_rho", "", beta)>>, df)

\* A variant that scales the emissions row in place (/= 1e3) in the dataset.
calculate_emissions_and_production_inplace(scenario, df, beta) ==
    LET sub  == FilterScenario(df, scenario)
        em   == FilterVariable(sub, VarEmissions)
        pr   == FilterVariable(sub, VarProduction)
        first == CHOOSE i \in 1..Len(df) :
                    /\ df[i].Scenario = scenario /\ df[i].Variable = VarEmissions
                    /\ \A j \in 1..(i - 1) : ~(df[j].Scenario = scenario /\ df[j].Variable = VarEmissions)
        scaled == [df EXCEPT ![first].vals = [y \in DOMAIN @ |-> @[y] \div 1000]]
    IN  IF em = <<>> THEN Raise("IndexError", <<>>, df)
        ELSE IF pr = <<>> THEN Raise("IndexError", <<>>, scaled)
        ELSE Return(emissions_and_production(em[1], pr[1], beta),
                    <<CallRecord("calculate_rho", "", beta)>>, scaled)

\* The result carries, besides the outcome and the returned dict, the calls
\* made on the way and the dataset as the call leaves it (it only reads it).
\* iloc[0] of an empty selection raises IndexError.
calculate_emissions_and_production(scenario, df, beta) ==
    LET sub  == FilterScenario(df, scenario)
        em   == FilterVariable(sub, VarEmissions)
        pr   == FilterVariable(sub, VarProduction)
    IN  IF em = <<>> THEN Raise("IndexError", <<>>, df)
        ELSE IF pr = <<>> THEN Raise("IndexError", <<>>, df)
        ELSE Return(emissions_and_production(em[1], pr[1], beta),
                    <<CallRecord("calculate_rho", "", beta)>>, df)

\* Lines 65-78: the dict built from the two extraction results.
result_dict(cps, nz, scc, lcoe) ==
    LET avoided_emissions == VSub(cps.emissions, nz.emissions)
        discounted_production_increase ==
            VSub(cps.production_discounted, nz.production_discounted)
        discounted_production_increase_mwh == EJ2MWh(discounted_production_increase)
        cost    == VDiv(VMul(lcoe, discounted_production_increase_mwh), Dec(1, 12))
        benefit == VDiv(VMul(avoided_emissions, scc), Dec(1, 3))
    IN  [avoided_emissions |-> avoided_emissions,
         cost |-> cost,
         benefit |-> benefit,
         arbitrage |-> VSub(benefit, cost),
         coal_2022 |-> cps.production_2022]

\* Line 63 on: ep_nz2050 is the outcome of the second extraction.
after_policy(scc, lcoe, calls, cps, ep_nz2050) ==
    IF ep_nz2050.outcome # "ok"
    THEN Raise(ep_nz2050.outcome, calls \o ep_nz2050.calls, ep_nz2050.df)
    ELSE Return(result_dict(cps, ep_nz2050.ret[1], scc, lcoe),
                calls \o ep_nz2050.calls, ep_nz2050.df)

\* Line 62 on: ep_cps is the outcome of the first extraction; an exception
\* in it leaves the function before the second extraction.
after_baseline(policy, scc, lcoe, beta, call1, ep_cps) ==
    IF ep_cps.outcome # "ok"
    THEN Raise(ep_cps.outcome, <<call1>> \o ep_cps.calls, ep_cps.df)
    ELSE after_policy(scc, lcoe,
                      <<call1>> \o ep_cps.calls
                         \o <<CallRecord("calculate_emissions_and_production", policy, beta)>>,
                      ep_cps.ret[1],
                      calculate_emissions_and_production(policy, ep_cps.df, beta))

\* Lines 62-78 with the two scenario identifiers as parameters.
cost_and_benefit(baseline, policy, scc, lcoe, beta, df) ==
    after_baseline(policy, scc, lcoe, beta,
                   CallRecord("calculate_emissions_and_production", baseline, beta),
                   calculate_emissions_and_production(baseline, df, beta))

\* A variant that extracts the policy scenario first.
calculate_cost_and_benefit_swapped(scc, lcoe, beta, df) ==
    cost_and_benefit(ScenarioNZ, ScenarioCPS, scc, lcoe, beta, df)

calculate_cost_and_benefit(scc, lcoe, beta, df) ==
    cost_and_benefit(ScenarioCPS, ScenarioNZ, scc, lcoe, beta, df)

\* A variant that leaves the end point out (endpoint=False).
linspace_no_endpoint(start, stop, num) ==
    LET step == VDiv(VSub(stop, start), Num(num))
    IN  [i \in 1..num |-> VAdd(VMul(Num(i - 1), step), start)]

\* np.linspace(start, stop, num): start + i * step for i = 0 .. num - 1 with
\* step = (stop - start) / (num - 1), the last point set to stop itself.
linspace(start, stop, num) ==
    LET step == VDiv(VSub(stop, start), Num(num - 1))
    IN  [i \in 1..num |-> IF i = num /\ num > 1 THEN stop
                          ELSE VAdd(VMul(Num(i - 1), step), start)]

(***************************************************************************)
(* Inputs: the CSV file main() reads and the three sidebar widgets.        *)
(* A row holds one level up to 2020 and another from 2025 on, in thousands *)
(* for emissions (MtCO2) and in tens for production (EJ).                  *)
(***************************************************************************)
MaxLevel == 2

MaxProd == 1

Years == {years_5_step[i] : i \in 1..Len(years_5_step)}

Ramp(a, b) == [y \in Years |-> IF y <= 2020 THEN a ELSE b]

Row(scenario, variable, vals) == [Scenario |-> scenario, Variable |-> variable, vals |-> vals]

\* A complete file: a row of another scenario first, the four rows the
\* program reads, and a second, different "Emissions|CO2" row of the
\* baseline scenario last.
Dataset(a, b, b2, q, q2) ==
    << Row("NGFS2_Delayed Transition", "Emissions|CO2", Ramp(0, 0)),
       Row("NGFS2_Current Policies", "Emissions|CO2", Ramp(1000 * a, 1000 * b)),
       Row("NGFS2_Current Policies", "Primary Energy|Coal", Ramp(10, 10 * q)),
       Row("NGFS2_Net-Zero 2050", "Emissions|CO2", Ramp(1000 * a, 1000 * b2)),
       Row("NGFS2_Net-Zero 2050", "Primary Energy|Coal", Ramp(10, 10 * q2)),
       Row("NGFS2_Current Policies", "Emissions|CO2", Ramp(1000 * (a + 1), 0)) >>

\* The file without the rows at the positions in drop.
Without(df, drop) ==
    LET keep == {i \in 1..Len(df) : i \notin drop}
        RECURSIVE Pick(_)
        Pick(i) == IF i > Len(df) THEN <<>>
                   ELSE IF i \in keep THEN <<df[i]>> \o Pick(i + 1) ELSE Pick(i + 1)
    IN  Pick(1)

CompleteDatasets ==
    {Dataset(a, b, b2, q, q2) : a \in 0..MaxLevel, b \in 0..MaxLevel, b2 \in 0..MaxLevel,
                                q \in 0..MaxProd, q2 \in 0..MaxProd}

\* Files that lack some of the rows the program reads (positions 2..6).
IncompleteDatasets ==
    {Without(Dataset(1, 2, 1, 1, 0), drop) : drop \in (SUBSET {2, 3, 4, 5, 6}) \ {{}, {6}}}

\* The widget values of one run: the defaults, the minima and the maxima of
\* the sliders and of the beta input.
Preset(scc, lcoe, beta) == [social_cost_of_carbon |-> scc, global_lcoe_average |-> lcoe, beta |-> beta]

Presets ==
    { Preset(Num(80), Dec(5925, -2), Dec(91, -2)),
      Preset(Num(1), Num(1), Num(0)),
      Preset(Num(200), Num(200), Num(2)) }

ParamChoices == {"Social Cost of Carbon", "Global LCOE", "Beta"}

(***************************************************************************)
(* main(): one run of the Streamlit script.                                *)
(***************************************************************************)
VARIABLES
    pc,                     \* where the run is
    csv_file,               \* the file at data_path: <<>> or <<rows>>
    social_cost_of_carbon,  \* sidebar slider
    global_lcoe_average,    \* sidebar slider
    beta,                   \* sidebar number input
    df_ngfs,                \* the loaded dataset
    results,                \* <<>> or <<the dict of the first evaluation>>
    param_choice,           \* the selectbox
    param_values,           \* the sweep grid
    emissions, cost, benefit, arbitrage,   \* the lists the sweep appends to
    df_plot,                \* the plotted table
    evals,                  \* every call of calculate_cost_and_benefit so far
    error                   \* what the run showed or raised

vars == <<pc, csv_file, social_cost_of_carbon, global_lcoe_average, beta, df_ngfs, results,
          param_choice, param_values, emissions, cost, benefit, arbitrage, df_plot,
          evals, error>>

InitWith(files, presets) ==
    /\ pc = "start"
    /\ csv_file \in files
    /\ \E p \in presets :
          /\ social_cost_of_carbon = p.social_cost_of_carbon
          /\ global_lcoe_average = p.global_lcoe_average
          /\ beta = p.beta
    /\ df_ngfs = <<>>
    /\ results = <<>>
    /\ param_choice = ""
    /\ param_values = <<>>
    /\ emissions = <<>> /\ cost = <<>> /\ benefit = <<>> /\ arbitrage = <<>>
    /\ df_plot = <<>>
    /\ evals = <<>>
    /\ error = ""

\* The call calculate_cost_and_benefit(scc, lcoe, b, df) as main() makes it.
Call(scc, lcoe, b, df) ==
    LET r == calculate_cost_and_benefit(scc, lcoe, b, df)
    IN  [social_cost_of_carbon |-> scc, global_lcoe_average |-> lcoe, beta |-> b,
         outcome |-> r.outcome, ret |-> r.ret, calls |-> r.calls, df |-> r.df]

\* if not os.path.isfile(data_path): st.error(...); return
FileNotFound ==
    /\ pc = "start"
    /\ csv_file = <<>>
    /\ pc' = "returned"
    /\ error' = "CSV file not found"
    /\ UNCHANGED <<csv_file, social_cost_of_carbon, global_lcoe_average, beta, df_ngfs, results,
                   param_choice, param_values, emissions, cost, benefit, arbitrage, df_plot, evals>>

\* df_ngfs = pd.read_csv(data_path)
ReadCsv ==
    /\ pc = "start"
    /\ csv_file # <<>>
    /\ df_ngfs' = csv_file[1]
    /\ pc' = "loaded"
    /\ UNCHANGED <<csv_file, social_cost_of_carbon, global_lcoe_average, beta, results,
                   param_choice, param_values, emissions, cost, benefit, arbitrage, df_plot,
                   evals, error>>

\* results = calculate_cost_and_benefit(...) and the four st.write lines; an
\* exception is not caught and ends the run.
Evaluate ==
    /\ pc = "loaded"
    /\ \E c \in {Call(social_cost_of_carbon, global_lcoe_average, beta, df_ngfs)} :
           /\ evals' = Append(evals, c)
           /\ df_ngfs' = c.df
           /\ IF c.outcome = "ok"
              THEN /\ results' = c.ret
                   /\ pc' = "results"
                   /\ error' = error
              ELSE /\ results' = results
                   /\ pc' = "raised"
                   /\ error' = c.outcome
    /\ UNCHANGED <<csv_file, social_cost_of_carbon, global_lcoe_average, beta,
                   param_choice, param_values, emissions, cost, benefit, arbitrage, df_plot>>

\* param_choice = st.selectbox(...); param_values = np.linspace(...); the
\* four lists start empty.
grid_num == 20

SelectSweep ==
    /\ pc = "results"
    /\ \E choice \in ParamChoices :
          /\ param_choice' = choice
          /\ param_values' = IF choice \in {"Social Cost of Carbon", "Global LCOE"}
                             THEN linspace(Num(10), Num(200), grid_num)
                             ELSE linspace(Num(0), Num(2), grid_num)
    /\ emissions' = <<>> /\ cost' = <<>> /\ benefit' = <<>> /\ arbitrage' = <<>>
    /\ pc' = "sweep"
    /\ UNCHANGED <<csv_file, social_cost_of_carbon, global_lcoe_average, beta, df_ngfs, results,
                   df_plot, evals, error>>

\* A variant that hands the grid value of a price sweep to the other price.
SweepCall_swapped(val) ==
    Call(IF param_choice = "Global LCOE" THEN val ELSE social_cost_of_carbon,
         IF param_choice = "Social Cost of Carbon" THEN val ELSE global_lcoe_average,
         IF param_choice = "Beta" THEN val ELSE beta,
         df_ngfs)

\* res = calculate_cost_and_benefit(val if ... else ..., ..., df_ngfs)
SweepCall(val) ==
    Call(IF param_choice = "Social Cost of Carbon" THEN val ELSE social_cost_of_carbon,
         IF param_choice = "Global LCOE" THEN val ELSE global_lcoe_average,
         IF param_choice = "Beta" THEN val ELSE beta,
         df_ngfs)

\* One iteration of "for val in param_values": the next grid value is the
\* one after those already appended.
SweepStep ==
    /\ pc = "sweep"
    /\ Len(emissions) < Len(param_values)
    /\ \E c \in {SweepCall(param_values[Len(emissions) + 1])} :
           /\ evals' = Append(evals, c)
           /\ df_ngfs' = c.df
           /\ IF c.outcome = "ok"
              THEN /\ emissions' = Append(emissions, c.ret[1].avoided_emissions)
                   /\ cost' = Append(cost, c.ret[1].cost)
                   /\ benefit' = Append(benefit, c.ret[1].benefit)
                   /\ arbitrage' = Append(arbitrage, c.ret[1].arbitrage)
                   /\ pc' = pc
                   /\ error' = error
              ELSE /\ UNCHANGED <<emissions, cost, benefit, arbitrage>>
                   /\ pc' = "raised"
                   /\ error' = c.outcome
    /\ UNCHANGED <<csv_file, social_cost_of_carbon, global_lcoe_average, beta, results,
                   param_choice, param_values, df_plot>>

\* df_plot = pd.DataFrame({...}).set_index("Parameter"); st.line_chart(df_plot)
Plot ==
    /\ pc = "sweep"
    /\ Len(emissions) = Len(param_values)
    /\ df_plot' = [i \in 1..Len(param_values) |->
                      [Parameter |-> param_values[i], Emissions |-> emissions[i],
                       Cost |-> cost[i], Benefit |-> benefit[i], Arbitrage |-> arbitrage[i]]]
    /\ pc' = "done"
    /\ UNCHANGED <<csv_file, social_cost_of_carbon, global_lcoe_average, beta, df_ngfs, results,
                   param_choice, param_values, emissions, cost, benefit, arbitrage, evals, error>>

\* Files of the runs that go on to the sweep.
SweepDatasets ==
    { Dataset(1, 2, 1, 1, 0), Dataset(0, 0, 1, 1, 1), Without(Dataset(1, 2, 1, 1, 0), {5}) }

Init == InitWith({<<>>} \cup {<<d>> : d \in SweepDatasets}, Presets)

Next == FileNotFound \/ ReadCsv \/ Evaluate \/ SelectSweep \/ SweepStep \/ Plot

Spec == Init /\ [][Next]_vars

\* The run up to the first results, over every input file.
InitEvaluate ==
    InitWith({<<>>} \cup {<<d>> : d \in CompleteDatasets \cup IncompleteDatasets}, Presets)

NextEvaluate == FileNotFound \/ ReadCsv \/ Evaluate

SpecEvaluate == InitEvaluate /\ [][NextEvaluate]_vars

(***************************************************************************)
(* Order on Values of the form c0 + c1 * _lambda (scalars included).       *)
(***************************************************************************)
\* Sign of tail - r, where tail = 0.d_i d_(i+1) ... of LambdaDigits and
\* r = x/y * 10^e with x >= 0, y > 0: long division of r, digit by digit.
RECURSIVE CmpDigits(_, _, _, _)
CmpDigits(i, x, y, e) ==
    IF x = 0 THEN (IF \E j \in i..Len(LambdaDigits) : LambdaDigits[j] # 0 THEN 1 ELSE 0)
    ELSE IF e >= 0 /\ x >= y THEN -1
    ELSE IF i > Len(LambdaDigits) THEN -1
    ELSE IF e > 0 THEN CmpDigits(i, x * 10, y, e - 1)
    ELSE IF e < 0 THEN CmpDigits(i, x, y * 10, e + 1)
    ELSE LET dr == (10 * x) \div y
             dl == LambdaDigits[i]
         IN  IF dl # dr THEN Sgn(dl - dr) ELSE CmpDigits(i + 1, (10 * x) % y, y, 0)

\* Sign of _lambda - q for a decimal rational q.
LambdaCmp(q) == IF q.n <= 0 THEN 1 ELSE CmpDigits(1, q.n, q.d, q.e)

\* Sign of the number c0 + c1 * _lambda.
LinSign(v) ==
    LET c0 == Coef(v, ConstMono)
        c1 == Coef(v, LambdaMono)
    IN  IF c1.n = 0 THEN QSign(c0)
        ELSE QSign(c1) * LambdaCmp(QDiv(QNeg(c0), c1))

VLeq(a, b) == LinSign(VSub(b, a)) >= 0

VLess(a, b) == LinSign(VSub(b, a)) > 0

(***************************************************************************)
(* Properties.                                                             *)
(***************************************************************************)
HasRow(df, scenario, variable) ==
    \E i \in 1..Len(df) : df[i].Scenario = scenario /\ df[i].Variable = variable

RowOf(df, scenario, variable) ==
    df[CHOOSE i \in 1..Len(df) :
          /\ df[i].Scenario = scenario /\ df[i].Variable = variable
          /\ \A j \in 1..(i - 1) : ~(df[j].Scenario = scenario /\ df[j].Variable = variable)]

MissingFor(df, scenario) ==
    ~HasRow(df, scenario, "Emissions|CO2") \/ ~HasRow(df, scenario, "Primary Energy|Coal")

ScenarioIds ==
    {"NGFS2_Current Policies", "NGFS2_Net-Zero 2050", "NGFS2_Delayed Transition", "NGFS2_Below 2C"}

LastEval == evals[Len(evals)]

\* C1: for every dataset and scenario identifier, a missing "Emissions|CO2"
\* or "Primary Energy|Coal" row makes calculate_emissions_and_production end
\* in a lookup failure with no return value, and so does the evaluation
\* calculate_cost_and_benefit when a row of either of its scenarios is
\* missing: no result is produced and the run ends with the exception.
C1_MissingRowRaises ==
    pc \in {"results", "raised"} =>
        /\ \A s \in ScenarioIds :
              MissingFor(df_ngfs, s) =>
                 LET r == calculate_emissions_and_production(s, df_ngfs, beta)
                 IN  IsLookupError(r.outcome) /\ r.ret = <<>>
        /\ (MissingFor(df_ngfs, "NGFS2_Current Policies")
              \/ MissingFor(df_ngfs, "NGFS2_Net-Zero 2050")) =>
                 /\ IsLookupError(LastEval.outcome)
                 /\ LastEval.ret = <<>>
                 /\ results = <<>>
                 /\ pc = "raised"
                 /\ IsLookupError(error)

\* An evaluation whose baseline rows are there and whose policy scenario
\* lacks a row has raised.
C1_Witness ==
    /\ pc = "raised"
    /\ ~MissingFor(df_ngfs, "NGFS2_Current Policies")
    /\ MissingFor(df_ngfs, "NGFS2_Net-Zero 2050")
    /\ LastEval.ret = <<>>

\* The piecewise-linear value of a row at year y, in thousands of the
\* column unit, written out from the two neighbouring 5-year columns.
LinearAt(row, y) ==
    LET y0 == 2010 + 5 * ((y - 2010) \div 5)
        y1 == IF y0 = 2100 THEN 2100 ELSE y0 + 5
    IN  Q(5 * row.vals[y0] + (row.vals[y1] - row.vals[y0]) * (y - y0), 5000, 0)

RECURSIVE LinearSum(_, _, _)
LinearSum(row, lo, hi) ==
    IF lo > hi THEN QZero
    ELSE IF lo = hi THEN LinearAt(row, lo)
    ELSE QAdd(LinearSum(row, lo, (lo + hi) \div 2), LinearSum(row, (lo + hi) \div 2 + 1, hi))

AllFinite(dict) ==
    /\ IsFinite(dict.avoided_emissions) /\ IsFinite(dict.cost) /\ IsFinite(dict.benefit)
    /\ IsFinite(dict.arbitrage) /\ IsFinite(dict.coal_2022)

EmissionsRow(scenario) == RowOf(df_ngfs, scenario, "Emissions|CO2")

ProductionRow(scenario) == RowOf(df_ngfs, scenario, "Primary Energy|Coal")

\* C2: whenever the required rows are present (all sample values are finite),
\* the divisor of the anchoring step, the interpolated emissions at 2022,
\* is non-zero for both scenarios and every field of the returned dict is a
\* finite number.
C2_NoDivisionByZero ==
    pc = "results" =>
        /\ \A s \in {"NGFS2_Current Policies", "NGFS2_Net-Zero 2050"} :
              LinearAt(EmissionsRow(s), 2022) # QZero
        /\ AllFinite(results[1])

\* C4: when the same emissions samples and the same production samples feed
\* both sides of an evaluation, avoided_emissions, cost, benefit and
\* arbitrage are all exactly 0.
C4_SameScenarioAllZero ==
    (/\ pc = "results"
     /\ EmissionsRow("NGFS2_Current Policies").vals = EmissionsRow("NGFS2_Net-Zero 2050").vals
     /\ ProductionRow("NGFS2_Current Policies").vals = ProductionRow("NGFS2_Net-Zero 2050").vals)
    => /\ results[1].avoided_emissions = Num(0)
       /\ results[1].cost = Num(0)
       /\ results[1].benefit = Num(0)
       /\ results[1].arbitrage = Num(0)

AnchorHolds(total, raw, at2022) ==
    /\ total = VMul(raw, VDiv(Dec(155, -1), at2022))
    /\ ~IsZero(raw) => VDiv(total, raw) = VDiv(Dec(155, -1), at2022)

C9_SameProductionNoCost ==
    (/\ pc = "results"
     /\ ~MissingFor(df_ngfs, "NGFS2_Current Policies")
     /\ ~MissingFor(df_ngfs, "NGFS2_Net-Zero 2050")
     /\ ProductionRow("NGFS2_Current Policies").vals = ProductionRow("NGFS2_Net-Zero 2050").vals)
    => /\ results[1].cost = Num(0)
       /\ results[1].arbitrage = results[1].benefit

\* Same production, different emissions, a benefit that is a non-zero number.
C9_Witness ==
    /\ pc = "results"
    /\ ProductionRow("NGFS2_Current Policies").vals = ProductionRow("NGFS2_Net-Zero 2050").vals
    /\ EmissionsRow("NGFS2_Current Policies").vals # EmissionsRow("NGFS2_Net-Zero 2050").vals
    /\ IsFinite(results[1].benefit) /\ ~IsZero(results[1].benefit)
    /\ results[1].cost = Num(0)

CallsNamed(calls, fn) == SelectSeq(calls, LAMBDA c : c.fn = fn)

ExtractionOrder(calls) ==
    LET x == CallsNamed(calls, "calculate_emissions_and_production")
    IN  [i \in 1..Len(x) |-> x[i].scenario]

\* C10 as stated: every evaluation extracts exactly twice, baseline then
\* policy, and calls calculate_rho exactly once.
C10_TwoExtractionsOneRho ==
    \A i \in 1..Len(evals) :
        /\ ExtractionOrder(evals[i].calls) = <<"NGFS2_Current Policies", "NGFS2_Net-Zero 2050">>
        /\ Len(CallsNamed(evals[i].calls, "calculate_rho")) = 1

\* C10 amended: every evaluation that returns a result extracts exactly
\* twice, baseline then policy, and calls calculate_rho exactly twice, once
\* inside each extraction and both times with the evaluation's beta; an
\* evaluation that raises has extracted the baseline, or the baseline and
\* then the policy scenario, and called calculate_rho at most once.
C10_TwoExtractionsTwoRho ==
    \A i \in 1..Len(evals) :
        LET e == evals[i]
            rho_call == CallRecord("calculate_rho", "", e.beta)
            cps_call == CallRecord("calculate_emissions_and_production", "NGFS2_Current Policies", e.beta)
            nz_call  == CallRecord("calculate_emissions_and_production", "NGFS2_Net-Zero 2050", e.beta)
        IN  IF e.outcome = "ok"
            THEN e.calls = <<cps_call, rho_call, nz_call, rho_call>>
            ELSE e.calls \in {<<cps_call>>, <<cps_call, rho_call, nz_call>>}

\* An evaluation has returned a result.
C10_Witness == pc = "results" /\ Len(evals) = 1 /\ evals[1].outcome = "ok"

SameArgs(e1, e2) ==
    /\ e1.social_cost_of_carbon = e2.social_cost_of_carbon
    /\ e1.global_lcoe_average = e2.global_lcoe_average
    /\ e1.beta = e2.beta

\* C3: two calls of calculate_cost_and_benefit with the same three parameters
\* and the same dataset return identical results, whatever was evaluated in
\* between, and every evaluation leaves the dataset as it was loaded.
C3_Idempotent ==
    pc \notin {"start", "returned"} =>
        /\ df_ngfs = csv_file[1]
        /\ \A i \in 1..Len(evals) : evals[i].df = csv_file[1]
        /\ \A i \in 1..Len(evals) : \A j \in 1..Len(evals) :
              SameArgs(evals[i], evals[j]) =>
                 evals[i].outcome = evals[j].outcome /\ evals[i].ret = evals[j].ret

\* The same arguments were evaluated twice with other evaluations in between.
C3_Witness ==
    \E i \in 1..Len(evals) : \E j \in 1..Len(evals) :
        /\ j > i + 1
        /\ SameArgs(evals[i], evals[j])
        /\ evals[j].outcome = "ok"
        /\ \E k \in (i + 1)..(j - 1) : ~SameArgs(evals[i], evals[k])

\* C5: the sweep grid has exactly 20 points, strictly ascending, from 0.0 to
\* 2.0 when beta is swept and from 10 to 200 when the social cost of carbon
\* or the global LCOE is swept.
C5_SweepGrid ==
    pc \in {"sweep", "done"} =>
        /\ Len(param_values) = 20
        /\ \A i \in 1..(Len(param_values) - 1) : VLess(param_values[i], param_values[i + 1])
        /\ param_choice = "Beta" =>
              param_values[1] = Num(0) /\ param_values[Len(param_values)] = Num(2)
        /\ param_choice \in {"Social Cost of Carbon", "Global LCOE"} =>
              param_values[1] = Num(10) /\ param_values[Len(param_values)] = Num(200)

C5_Witness == pc = "sweep" /\ param_choice = "Beta" /\ Len(param_values) = 20

\* C6: in a sweep calculate_cost_and_benefit is called exactly once per grid
\* point, in ascending grid order, with the grid value as the swept
\* parameter and the sidebar values as the other two; the i-th entry of each
\* list (and of the plotted table) is the result for the i-th grid value.
C6_SweepOrder ==
    pc \in {"sweep", "done"} =>
        /\ Len(cost) = Len(emissions) /\ Len(benefit) = Len(emissions)
        /\ Len(arbitrage) = Len(emissions)
        /\ Len(evals) = Len(emissions) + 1
        /\ pc = "done" => Len(emissions) = Len(param_values)
        /\ \A i \in 1..Len(emissions) :
              /\ evals[i + 1].social_cost_of_carbon =
                    (IF param_choice = "Social Cost of Carbon" THEN param_values[i]
                     ELSE social_cost_of_carbon)
              /\ evals[i + 1].global_lcoe_average =
                    (IF param_choice = "Global LCOE" THEN param_values[i]
                     ELSE global_lcoe_average)
              /\ evals[i + 1].beta = (IF param_choice = "Beta" THEN param_values[i] ELSE beta)
              /\ evals[i + 1].outcome = "ok"
              /\ emissions[i] = evals[i + 1].ret[1].avoided_emissions
              /\ cost[i] = evals[i + 1].ret[1].cost
              /\ benefit[i] = evals[i + 1].ret[1].benefit
              /\ arbitrage[i] = evals[i + 1].ret[1].arbitrage
        /\ Len(emissions) > 0 =>
              LastEval.ret = calculate_cost_and_benefit(LastEval.social_cost_of_carbon,
                                                        LastEval.global_lcoe_average,
                                                        LastEval.beta, csv_file[1]).ret
        /\ pc = "done" =>
              \A i \in 1..Len(param_values) :
                  df_plot[i] = [Parameter |-> param_values[i], Emissions |-> emissions[i],
                                Cost |-> cost[i], Benefit |-> benefit[i],
                                Arbitrage |-> arbitrage[i]]

\* A sweep of the global LCOE has run to its end.
C6_Witness ==
    /\ pc = "done" /\ param_choice = "Global LCOE" /\ Len(cost) = 20
    /\ cost[1] # cost[20]

InBetaRange(b) == VLeq(Num(0), b) /\ VLeq(b, Num(2))

RhoAtZero ==
    VAdd(VMul(VMul(_lambda, Dec(208, -4)), VSub(Num(1), Dec(15, -2))),
         VMul(VSub(Num(1), _lambda), Dec(208, -4)))

RhoOrdered(b1, b2) ==
    (InBetaRange(b1) /\ InBetaRange(b2) /\ VLeq(b1, b2))
        => VLeq(calculate_rho(b1), calculate_rho(b2))

\* C8: over the betas in [0, 2] the program evaluates, calculate_rho is
\* non-decreasing in beta, and at beta = 0 it is
\* _lambda * 0.0208 * (1 - 0.15) + (1 - _lambda) * 0.0208 with
\* _lambda = 0.5175273490449868.  (Each state compares the beta of the
\* latest evaluation with those of all earlier ones.)
C8_RhoMonotone ==
    /\ LambdaDigits = <<5, 1, 7, 5, 2, 7, 3, 4, 9, 0, 4, 4, 9, 8, 6, 8>>
    /\ Len(evals) > 0 =>
          /\ \A i \in 1..Len(evals) :
                RhoOrdered(evals[i].beta, LastEval.beta) /\ RhoOrdered(LastEval.beta, evals[i].beta)
          /\ IsZero(LastEval.beta) => calculate_rho(LastEval.beta) = RhoAtZero

\* A beta sweep has just evaluated a grid point above beta = 0, after
\* beta = 0 and the sidebar beta.
C8_Witness ==
    /\ pc = "sweep" /\ param_choice = "Beta" /\ Len(emissions) = 10
    /\ \E i \in 1..Len(evals) : IsZero(evals[i].beta)
    /\ \E i \in 1..Len(evals) : VLess(LastEval.beta, evals[i].beta)

====
